---- MODULE Spec2Model ----
(***************************************************************************)
(* Lutris configuration v2: the cascading configuration engine of          *)
(* lutris/config2.py (CascadingProxy, CascadingConfig, ConfigFile and the  *)
(* System/Runner/Game/TempGame configs) and the legacy facade              *)
(* LutrisConfig of lutris/config.py.                                       *)
(*                                                                         *)
(* One facade owns one chain  system <- runner <- game.  Every level is a  *)
(* CascadingConfig: `data` is its self.data, `this` is the dictionary its  *)
(* self.config resolves locally (config.this of the CascadingProxy, or     *)
(* the dictionary itself for the parentless level) and `shared` says       *)
(* whether the two are one Python object.                                  *)
(***************************************************************************)
EXTENDS Integers, Sequences, FiniteSets, TLC

VARIABLES definition, data, this, shared, files, facade, last

vars == <<definition, data, this, shared, files, facade, last>>

\* ---------------------------------------------------------------- bounds
\* Stored values are -1 and 1..MaxVal.
MaxVal == 1

Values == {-1} \cup (1..MaxVal)

\* Option names, in the order yaml.dump writes them (sorted).
KeyOrder == <<"a">>

Keys == {KeyOrder[i] : i \in DOMAIN KeyOrder}

\* The option names a catalog may declare.
DeclKeys == {"a"}

Levels == {"system", "runner", "game"}

\* The default a catalog of each level declares, when it declares one.
DefaultOf(l) == CASE l = "system" -> 7 [] l = "runner" -> 8 [] OTHER -> 9

\* ------------------------------------------------------------- mappings
EmptyMap == [k \in {} |-> 0]

Maps == UNION {[S -> Values] : S \in SUBSET Keys}

\* dict.update(other)
DictUpdate(m, other) ==
    [k \in (DOMAIN m) \cup (DOMAIN other) |->
        IF k \in DOMAIN other THEN other[k] ELSE m[k]]

\* dict[key] = value
DictSet(m, k, v) == [x \in (DOMAIN m) \cup {k} |-> IF x = k THEN v ELSE m[x]]

\* del dict[key]
DictDel(m, k) == [x \in (DOMAIN m) \ {k} |-> m[x]]

\* An outcome of a call: a returned value or a raised exception.
Return(v) == [exc |-> "none", val |-> v]

Raise(e) == [exc |-> e, val |-> 0]

\* ------------------------------------------------------------- catalogs
\* makedef(options): a catalog maps each declared option name to its
\* definition, a dictionary that always holds "option" and may hold
\* "default", "validate" and one of "getter", "cascade" / "cascading" and
\* "transform".
NoParent == "none"

\* Mutant: the Game config is parented to the System config.
Parent_SkipRunner(l) == CASE l = "game" -> "system" [] l = "runner" -> "system" [] OTHER -> NoParent

Parent(l) == CASE l = "game" -> "runner" [] l = "runner" -> "system" [] OTHER -> NoParent

\* The validators a catalog may register, fn(config, key, value) -> bool:
\* "nonneg" refuses negative values, "accept" refuses nothing.
Validate(fn, l, k, v) == CASE fn = "nonneg" -> v >= 0 [] OTHER -> TRUE

\* The definitions a catalog of level l may give option k.
Defns(l, k) ==
    {[option |-> k, default |-> DefaultOf(l)],
     [option |-> k, validate |-> "nonneg"],
     [option |-> k, default |-> DefaultOf(l), validate |-> "accept"]}

\* The catalogs of level l: no option declared, or the options of DeclKeys.
Catalogs(l) ==
    {EmptyMap} \cup UNION {[DeclKeys -> Defns(l, k)] : k \in DeclKeys}

\* The custom getters a catalog may register, fn(config, key) -> value:
\* "const" returns 5, "absent" raises KeyError.
Getter(fn, l, k) == CASE fn = "const" -> Return(5) [] OTHER -> Raise("KeyError")

\* The definitions with a special behaviour a catalog of level l may give
\* option k: a custom getter, the flag "cascade" that build_getter_cache
\* tests, the flag "cascading" of the class docstring, and a transform.
GetterDefns(l, k) ==
    {[option |-> k, default |-> DefaultOf(l)],
     [option |-> k, getter |-> "const"],
     [option |-> k, getter |-> "absent", default |-> DefaultOf(l)],
     [option |-> k, cascade |-> TRUE],
     [option |-> k, cascading |-> TRUE],
     [option |-> k, transform |-> "negate", default |-> DefaultOf(l)]}

GetterCatalogs(l) ==
    {EmptyMap} \cup UNION {[DeclKeys -> GetterDefns(l, k)] : k \in DeclKeys}

\* ------------------------------------------------ CascadingConfig caches
RECURSIVE build_definition_cache(_, _)
\* Mutant: the parent's entry wins over the level's own catalog.
build_definition_cache_ParentWins(l, name) ==
    LET cache == IF Parent(l) # NoParent
                 THEN build_definition_cache(Parent(l), name)
                 ELSE EmptyMap
        own == {k \in DOMAIN definition[l] : name \in DOMAIN definition[l][k]}
    IN  [k \in (DOMAIN cache) \cup own |->
            IF k \in DOMAIN cache THEN cache[k] ELSE definition[l][k][name]]

\* The cache of definition entry `name` ("default", "validate") of level l:
\* the parent's cache, overwritten by the level's own catalog.
build_definition_cache(l, name) ==
    LET cache == IF Parent(l) # NoParent
                 THEN build_definition_cache(Parent(l), name)
                 ELSE EmptyMap
        own == {k \in DOMAIN definition[l] : name \in DOMAIN definition[l][k]}
    IN  [k \in (DOMAIN cache) \cup own |->
            IF k \in own THEN definition[l][k][name] ELSE cache[k]]

defaults(l) == build_definition_cache(l, "default")

validate_cache(l) == build_definition_cache(l, "validate")

RECURSIVE build_getter_cache(_)
\* CascadingConfig.build_getter_cache of level l: the parent's cache, then
\* per own definition the custom getter, else for a true "cascade" or for a
\* "transform" the bare names cascade_getter / transform_getter, which are
\* no names of the module or of the function: evaluating them raises
\* NameError.  The outcome is the cache or the exception.
build_getter_cache(l) ==
    LET cache == IF Parent(l) # NoParent
                 THEN build_getter_cache(Parent(l))
                 ELSE Return(EmptyMap)
        defn == definition[l]
        IsGetter(k) == "getter" \in DOMAIN defn[k]
        IsCascade(k) == ~IsGetter(k) /\ "cascade" \in DOMAIN defn[k] /\ defn[k]["cascade"]
        IsTransform(k) == ~IsGetter(k) /\ ~IsCascade(k) /\ "transform" \in DOMAIN defn[k]
        own == {k \in DOMAIN defn : IsGetter(k)}
    IN  IF cache.exc # "none" THEN cache
        ELSE IF \E k \in DOMAIN defn : IsCascade(k) \/ IsTransform(k)
        THEN Raise("NameError")
        ELSE Return([k \in (DOMAIN cache.val) \cup own |->
                        IF k \in own THEN defn[k]["getter"] ELSE cache.val[k]])

\* self.getter_cache of a constructed level l.
getter_cache(l) == build_getter_cache(l).val

RECURSIVE getter_cache_get(_, _)
\* self.getter_cache.get(key, "none") of a constructed level l, key by key:
\* build_getter_cache lets the level's own getter overwrite the parent's
\* entry, so the entry is the getter of the nearest catalog, from l up,
\* that registers one (GetterCacheLookup states the equality).
getter_cache_get(l, k) ==
    IF k \in DOMAIN definition[l] /\ "getter" \in DOMAIN definition[l][k]
    THEN definition[l][k]["getter"]
    ELSE IF Parent(l) = NoParent THEN "none" ELSE getter_cache_get(Parent(l), k)

\* ------------------------------------------------------------- lookups
RECURSIVE CascadingConfig_contains(_, _)
\* CascadingConfig.__contains__: key in self.config, where self.config is
\* the dictionary itself (no parent) or a CascadingProxy whose __contains__
\* is  key in self.this or key in self.parent.
CascadingConfig_contains(l, k) ==
    IF Parent(l) = NoParent
    THEN k \in DOMAIN this[l]
    ELSE k \in DOMAIN this[l] \/ CascadingConfig_contains(Parent(l), k)

RECURSIVE CascadingConfig_getitem(_, _)
RECURSIVE config_getitem(_, _)
\* Mutant: a local miss is a KeyError, the parent is not asked.
config_getitem_NoCascade(l, k) ==
    IF k \in DOMAIN this[l] THEN Return(this[l][k]) ELSE Raise("KeyError")

\* Mutant: a local miss resolves from the root of the chain first.
config_getitem_RootFirst(l, k) ==
    IF k \in DOMAIN this[l] THEN Return(this[l][k])
    ELSE IF Parent(l) = NoParent THEN Raise("KeyError")
    ELSE IF k \in DOMAIN this["system"] THEN Return(this["system"][k])
    ELSE CascadingConfig_getitem(Parent(l), k)

\* self.config[key] of level l: the dictionary's own lookup when the level
\* has no parent, else CascadingProxy.__getitem__, which returns
\* self.this[key] when present and self.parent[key] otherwise; self.parent
\* is the parent CascadingConfig, so that lookup is its __getitem__.
config_getitem(l, k) ==
    IF k \in DOMAIN this[l] THEN Return(this[l][k])
    ELSE IF Parent(l) = NoParent THEN Raise("KeyError")
    ELSE CascadingConfig_getitem(Parent(l), k)

\* CascadingConfig.__getitem__: the cached special getter of the key when it
\* has one, else self.config[key]; on KeyError the level's cached default
\* when it has one.
CascadingConfig_getitem(l, k) ==
    LET r == IF getter_cache_get(l, k) # "none"
             THEN Getter(getter_cache_get(l, k), l, k)
             ELSE config_getitem(l, k)
    IN  IF r.exc = "KeyError" /\ k \in DOMAIN defaults(l)
        THEN Return(defaults(l)[k])
        ELSE r

\* CascadingConfig.get_nodefaults: the special getter, else self.config[key].
get_nodefaults(l, k) ==
    IF getter_cache_get(l, k) # "none"
    THEN Getter(getter_cache_get(l, k), l, k)
    ELSE config_getitem(l, k)

\* ------------------------------------------------------------ files
TEMP_CONFIG == "TEMP_CONFIG"

None == "None"

\* The permanent identifiers a caller may assign.
GameIds == {"g1"}

system_config_path == "system.yml"

runner_config_path == "runners/r.yml"

\* GameConfig.filename: games/<game_config_id>.yml
GamePath(id) ==
    CASE id = TEMP_CONFIG -> "games/TEMP_CONFIG.yml" [] OTHER -> "games/g1.yml"

Paths == {system_config_path, runner_config_path}
         \cup {GamePath(id) : id \in GameIds \cup {TEMP_CONFIG}}

NoFile == [exists |-> FALSE, text |-> <<>>]

\* yaml.dump(data): the entries of the mapping, keys sorted.
yaml_dump(m) ==
    LET ks == SelectSeq(KeyOrder, LAMBDA k : k \in DOMAIN m)
    IN  [i \in DOMAIN ks |-> [key |-> ks[i], value |-> m[ks[i]]]]

\* yaml.load(text): the mapping of the document; a repeated key keeps its
\* last value.
yaml_load(text) ==
    LET ks == {text[i].key : i \in DOMAIN text}
        Last(k) == CHOOSE i \in DOMAIN text :
                     /\ text[i].key = k
                     /\ \A j \in DOMAIN text : text[j].key = k => j <= i
    IN  [k \in ks |-> text[Last(k)].value]

\* CascadingConfig._dump_file(filename, data)
dump_file(fs, path, m) == [fs EXCEPT ![path] = [exists |-> TRUE, text |-> yaml_dump(m)]]

\* CascadingConfig._load_file(filename); the file exists.
load_file(fs, path) == yaml_load(fs[path].text)

\* ------------------------------------------------------------ facade
\* The levels that were built: by LutrisConfig.__init__ system always,
\* runner unless the level is system, game when self.game_level was
\* assigned; none before the first CascadingConfig is constructed.
Exists(l) ==
    \/ l = "system" /\ facade.level # "none"
    \/ l = "runner" /\ facade.level \notin {"system", "none"}
    \/ l = "game" /\ facade.game_level # "none"

\* Whether level l is a ConfigFile (TempGameConfig is a bare CascadingConfig).
IsConfigFile(l) == Exists(l) /\ (l = "game" => facade.game_level = "GameConfig")

\* ConfigFile.filename of level l.
filename(l) ==
    CASE l = "system" -> system_config_path
      [] l = "runner" -> runner_config_path
      [] OTHER -> GamePath(facade.game_config_id)

\* ConfigFile.__init__ with data=None: the file's mapping when the file
\* exists, else CascadingConfig.__init__'s {}.
InitialData(fs, path) ==
    IF fs[path].exists THEN load_file(fs, path) ELSE EmptyMap

\* LutrisConfig.__init__(runner_slug, game_config_id): the facade and the
\* local stores of the chain it builds over the files fs.
LutrisConfig_init(rs, gid, fs) ==
    LET level == IF gid # None THEN "game" ELSE IF rs # None THEN "runner" ELSE "system"
        d == [l \in Levels |->
                CASE l = "system" -> InitialData(fs, system_config_path)
                  [] l = "runner" -> IF level # "system"
                                     THEN InitialData(fs, runner_config_path)
                                     ELSE EmptyMap
                  [] OTHER -> IF level = "game" /\ gid # TEMP_CONFIG
                              THEN InitialData(fs, GamePath(gid))
                              ELSE EmptyMap]
    IN  [facade |-> [runner_slug |-> rs, game_config_id |-> gid, level |-> level,
                     config |-> level,
                     game_level |-> IF level # "game" THEN "none"
                                    ELSE IF gid = TEMP_CONFIG THEN "TempGameConfig"
                                    ELSE "GameConfig"],
         data |-> d]

\* The arguments a caller constructs a facade with.
InitArgs ==
    {<<None, None>>, <<"r", None>>, <<"r", TEMP_CONFIG>>} \cup {<<"r", id>> : id \in GameIds}

Done(op, l, exc) == [op |-> op, level |-> l, exc |-> exc]

\* ------------------------------------------------------------ actions
\* Mutant: the write also lands in the parent's dictionary.
Store_WriteThrough(l, m) ==
    /\ this' = [x \in Levels |-> IF x = l \/ x = Parent(l) THEN m ELSE this[x]]
    /\ data' = [x \in Levels |->
                  IF (x = l \/ x = Parent(l)) /\ shared[x] THEN m ELSE data[x]]
    /\ UNCHANGED shared

\* A mutation of the dictionary self.config writes to: self.data is the
\* same object unless replace() parted them.
Store(l, m) ==
    /\ this' = [this EXCEPT ![l] = m]
    /\ data' = IF shared[l] THEN [data EXCEPT ![l] = m] ELSE data
    /\ UNCHANGED shared

\* CascadingConfig.__setitem__
setitem(l, k, v) ==
    /\ Exists(l)
    /\ IF k \in DOMAIN validate_cache(l) /\ ~Validate(validate_cache(l)[k], l, k, v)
       THEN /\ last' = Done("setitem", l, "ValueError")
            /\ UNCHANGED <<data, this, shared>>
       ELSE /\ Store(l, DictSet(this[l], k, v))
            /\ last' = Done("setitem", l, "none")
    /\ UNCHANGED <<definition, files, facade>>

\* Mutant: the deletion also removes the parent's entry.
delitem_Through(l, k) ==
    /\ Exists(l)
    /\ IF k \in DOMAIN this[l]
       THEN /\ this' = [x \in Levels |->
                          IF x = l \/ x = Parent(l) THEN DictDel(this[x], k) ELSE this[x]]
            /\ data' = [x \in Levels |->
                          IF (x = l \/ x = Parent(l)) /\ shared[x]
                          THEN DictDel(this[x], k) ELSE data[x]]
            /\ UNCHANGED shared
            /\ last' = Done("delitem", l, "none")
       ELSE /\ last' = Done("delitem", l, "KeyError")
            /\ UNCHANGED <<data, this, shared>>
    /\ UNCHANGED <<definition, files, facade>>

\* Mutant: a local miss deletes the entry the parent holds, silently.
delitem_Cascading(l, k) ==
    /\ Exists(l)
    /\ IF k \in DOMAIN this[l]
       THEN /\ Store(l, DictDel(this[l], k))
            /\ last' = Done("delitem", l, "none")
       ELSE IF Parent(l) # NoParent /\ k \in DOMAIN this[Parent(l)]
       THEN /\ Store(Parent(l), DictDel(this[Parent(l)], k))
            /\ last' = Done("delitem", l, "none")
       ELSE /\ last' = Done("delitem", l, "KeyError")
            /\ UNCHANGED <<data, this, shared>>
    /\ UNCHANGED <<definition, files, facade>>

\* CascadingConfig.__delitem__: del self.config[key], which deletes from the
\* dictionary (directly, or as CascadingProxy.__delitem__'s del self.this[key]).
delitem(l, k) ==
    /\ Exists(l)
    /\ IF k \in DOMAIN this[l]
       THEN /\ Store(l, DictDel(this[l], k))
            /\ last' = Done("delitem", l, "none")
       ELSE /\ last' = Done("delitem", l, "KeyError")
            /\ UNCHANGED <<data, this, shared>>
    /\ UNCHANGED <<definition, files, facade>>

\* Mutant: update validates every value as __setitem__ does.
update_Validated(l, other) ==
    /\ Exists(l)
    /\ IF \E k \in DOMAIN other :
            k \in DOMAIN validate_cache(l) /\ ~Validate(validate_cache(l)[k], l, k, other[k])
       THEN /\ last' = Done("update", l, "ValueError")
            /\ UNCHANGED <<data, this, shared>>
       ELSE /\ Store(l, DictUpdate(this[l], other))
            /\ last' = Done("update", l, "none")
    /\ UNCHANGED <<definition, files, facade>>

\* CascadingConfig.update
update(l, other) ==
    /\ Exists(l)
    /\ Store(l, DictUpdate(this[l], other))
    /\ last' = Done("update", l, "none")
    /\ UNCHANGED <<definition, files, facade>>

\* The stores after CascadingConfig.replace(other) at level l.
Replaced(l, other) ==
    /\ data' = [data EXCEPT ![l] = other]
    /\ IF Parent(l) # NoParent
       THEN this' = [this EXCEPT ![l] = other] /\ UNCHANGED shared
       ELSE UNCHANGED this /\ shared' = [shared EXCEPT ![l] = FALSE]

\* CascadingConfig.replace
replace(l, other) ==
    /\ Exists(l)
    /\ Replaced(l, other)
    /\ last' = Done("replace", l, "none")
    /\ UNCHANGED <<definition, files, facade>>

\* ConfigFile.load: self.replace(self._load_file(self.filename))
load(l) ==
    /\ IsConfigFile(l)
    /\ IF files[filename(l)].exists
       THEN /\ Replaced(l, load_file(files, filename(l)))
            /\ last' = Done("load", l, "none")
       ELSE /\ last' = Done("load", l, "IOError")
            /\ UNCHANGED <<data, this, shared>>
    /\ UNCHANGED <<definition, files, facade>>

\* Mutant: save dumps the resolved view instead of self.data.
save_Resolved(l) ==
    /\ IsConfigFile(l)
    /\ files' = dump_file(files, filename(l),
                          [k \in {x \in Keys : CascadingConfig_getitem(l, x).exc = "none"} |->
                              CascadingConfig_getitem(l, k).val])
    /\ last' = Done("save", l, "none")
    /\ UNCHANGED <<definition, data, this, shared, facade>>

\* ConfigFile.save: self.dump_to_file(self.filename), which dumps self.data
save(l) ==
    /\ IsConfigFile(l)
    /\ files' = dump_file(files, filename(l), data[l])
    /\ last' = Done("save", l, "none")
    /\ UNCHANGED <<definition, data, this, shared, facade>>

\* LutrisConfig.save: self.config.save(); a TempGameConfig has no save.
LutrisConfig_save ==
    IF IsConfigFile(facade.config)
    THEN /\ files' = dump_file(files, filename(facade.config), data[facade.config])
         /\ last' = Done("LutrisConfig.save", facade.config, "none")
         /\ UNCHANGED <<definition, data, this, shared, facade>>
    ELSE /\ last' = Done("LutrisConfig.save", facade.config, "AttributeError")
         /\ UNCHANGED <<definition, data, this, shared, files, facade>>

\* Mutant: the new GameConfig is built with data=None and reads its file.
assign_id_FromFile(value) == InitialData(files, GamePath(value))

\* TempGameConfig.assign_id(game_config_id): the data the new GameConfig is
\* built on.  GameConfig passes data=self.data to ConfigFile.__init__, which
\* reads the file only when data is None, so games/<id>.yml is not read.
assign_id(value) == data["game"]

\* The game_config_id setter of LutrisConfig.  With the identifier still
\* TEMP_CONFIG it calls self.game_level.assign_id(value), which only a
\* TempGameConfig has; the GameConfig it returns becomes self.game_level and
\* self.config.  Otherwise it raises Exception("Cannot change ... later").
game_config_id_setter(value) ==
    /\ IF facade.game_config_id = TEMP_CONFIG
       THEN IF facade.game_level = "TempGameConfig"
            THEN /\ facade' = [facade EXCEPT !.game_level = "GameConfig",
                                             !.config = "game",
                                             !.game_config_id = value]
                 /\ data' = [data EXCEPT !["game"] = assign_id(value)]
                 /\ this' = [this EXCEPT !["game"] = assign_id(value)]
                 /\ shared' = [shared EXCEPT !["game"] = TRUE]
                 /\ last' = Done("game_config_id", "game", "none")
            ELSE /\ last' = Done("game_config_id", "game", "AttributeError")
                 /\ UNCHANGED <<data, this, shared, facade>>
       ELSE /\ last' = Done("game_config_id", "game", "Exception")
            /\ UNCHANGED <<data, this, shared, facade>>
    /\ UNCHANGED <<definition, files>>

\* LutrisConfig.game_config_path: None without a persisted identifier.
game_config_path ==
    IF facade.game_config_id = None \/ facade.game_config_id = TEMP_CONFIG
    THEN None
    ELSE filename("game")

\* Mutant: remove deletes the file of the active config.
remove_ActiveFile ==
    /\ IF IsConfigFile(facade.config) /\ files[filename(facade.config)].exists
       THEN files' = [files EXCEPT ![filename(facade.config)] = NoFile]
       ELSE UNCHANGED files
    /\ last' = Done("remove", facade.config, "none")
    /\ UNCHANGED <<definition, data, this, shared, facade>>

\* LutrisConfig.remove
remove ==
    /\ IF game_config_path # None /\ files[game_config_path].exists
       THEN files' = [files EXCEPT ![game_config_path] = NoFile]
       ELSE UNCHANGED files
    /\ last' = Done("remove", facade.config, "none")
    /\ UNCHANGED <<definition, data, this, shared, facade>>

\* A new LutrisConfig(runner_slug, game_config_id) over the files as they are.
LutrisConfig_new(rs, gid) ==
    LET c == LutrisConfig_init(rs, gid, files)
    IN  /\ facade' = c.facade
        /\ data' = c.data
        /\ this' = c.data
        /\ shared' = [l \in Levels |-> TRUE]
        /\ last' = Done("LutrisConfig", c.facade.level, "none")
        /\ UNCHANGED <<definition, files>>

\* CascadingConfig(definition[l], parent=<level above>): __init__ sets
\* self.data = {}, builds the caches and so raises what build_getter_cache
\* raises, in which case no config comes to exist.
CascadingConfig_new(l) ==
    /\ ~Exists(l)
    /\ Parent(l) = NoParent \/ Exists(Parent(l))
    /\ IF build_getter_cache(l).exc = "none"
       THEN /\ facade' = [facade EXCEPT !.level = l, !.config = l,
                                        !.game_level = IF l = "game"
                                                       THEN "TempGameConfig"
                                                       ELSE "none"]
            /\ data' = [data EXCEPT ![l] = EmptyMap]
            /\ this' = [this EXCEPT ![l] = EmptyMap]
            /\ shared' = [shared EXCEPT ![l] = TRUE]
            /\ last' = Done("CascadingConfig", l, "none")
       ELSE /\ last' = Done("CascadingConfig", l, "NameError")
            /\ UNCHANGED <<data, this, shared, facade>>
    /\ UNCHANGED <<definition, files>>

\* ------------------------------------------------------- specification
\* The mappings a caller passes to update() and replace().
Others == Maps

Chain(a, fs) ==
    LET c == LutrisConfig_init(a[1], a[2], fs)
    IN  /\ facade = c.facade
        /\ data = c.data
        /\ this = c.data
        /\ shared = [l \in Levels |-> TRUE]
        /\ last = Done("LutrisConfig", c.facade.level, "none")

\* The engine: a System -> Runner -> Game chain under every combination of
\* catalogs, with no file on disk.
Init ==
    /\ \E cs \in Catalogs("system"), cr \in Catalogs("runner"), cg \in Catalogs("game") :
         definition = [l \in Levels |->
                          CASE l = "system" -> cs [] l = "runner" -> cr [] OTHER -> cg]
    /\ files = [p \in Paths |-> NoFile]
    /\ Chain(<<"r", "g1">>, files)

Next ==
    \/ \E l \in Levels, k \in Keys, v \in Values : setitem(l, k, v)
    \/ \E l \in Levels, k \in Keys : delitem(l, k)
    \/ \E l \in Levels, other \in Others : update(l, other)
    \/ \E l \in Levels, other \in Others : replace(l, other)

Spec == Init /\ [][Next]_vars

\* The catalogs of the facade runs: the system catalog declares a default.
FacadeDefinition ==
    [l \in Levels |->
        IF l = "system" THEN [k \in DeclKeys |-> [option |-> k, default |-> DefaultOf(l)]]
        ELSE EmptyMap]

\* The files found at start: none, or a games/<id>.yml left by an earlier run.
InitFiles ==
    {[p \in Paths |-> IF p \in S
                      THEN [exists |-> TRUE, text |-> yaml_dump([k \in {"a"} |-> 1])]
                      ELSE NoFile] :
        S \in SUBSET {GamePath(id) : id \in GameIds}}

\* The facade: every shape LutrisConfig builds, the operations of the legacy
\* API on the active config, and the files.
InitFacade ==
    /\ definition = FacadeDefinition
    /\ files \in InitFiles
    /\ \E a \in InitArgs : Chain(a, files)

NextFacade ==
    \/ \E k \in Keys, v \in Values : setitem(facade.config, k, v)
    \/ \E k \in Keys : delitem(facade.config, k)
    \/ \E other \in Others : update(facade.config, other)
    \/ \E other \in Others : replace(facade.config, other)
    \/ load(facade.config)
    \/ \E l \in Levels : save(l)
    \/ LutrisConfig_save
    \/ \E value \in GameIds \cup {TEMP_CONFIG} : game_config_id_setter(value)
    \/ remove
    \/ \E a \in InitArgs : LutrisConfig_new(a[1], a[2])

SpecFacade == InitFacade /\ [][NextFacade]_vars

\* The special getters: configs constructed one by one, root first, under
\* every combination of catalogs that declare special behaviours.
InitGetters ==
    /\ \E cs \in GetterCatalogs("system"), cr \in GetterCatalogs("runner"),
          cg \in GetterCatalogs("game") :
         definition = [l \in Levels |->
                          CASE l = "system" -> cs [] l = "runner" -> cr [] OTHER -> cg]
    /\ files = [p \in Paths |-> NoFile]
    /\ facade = [runner_slug |-> None, game_config_id |-> None, level |-> "none",
                 config |-> "none", game_level |-> "none"]
    /\ data = [l \in Levels |-> EmptyMap]
    /\ this = [l \in Levels |-> EmptyMap]
    /\ shared = [l \in Levels |-> TRUE]
    /\ last = Done("none", "none", "none")

NextGetters ==
    \/ \E l \in Levels : CascadingConfig_new(l)
    \/ \E l \in Levels, k \in Keys, v \in Values : setitem(l, k, v)
    \/ \E l \in Levels, k \in Keys : delitem(l, k)

SpecGetters == InitGetters /\ [][NextGetters]_vars

\* The key-by-key lookup is the cache that build_getter_cache built, at
\* every constructed level.
GetterCacheLookup ==
    \A l \in Levels, k \in Keys :
        Exists(l) =>
            /\ build_getter_cache(l).exc = "none"
            /\ getter_cache_get(l, k) =
                  (IF k \in DOMAIN getter_cache(l) THEN getter_cache(l)[k] ELSE "none")

\* ================================================================ claims
Ancestors(l) ==
    CASE l = "game" -> {"runner", "system"} [] l = "runner" -> {"system"} [] OTHER -> {}

\* What a caller observes reading every key at level l.
Reads(l) == [k \in Keys |-> CascadingConfig_getitem(l, k)]

\* Neither dictionary of level l holds key k.
NoLocalEntry(l, k) == k \notin DOMAIN this[l] /\ k \notin DOMAIN data[l]

\* Key k is stored at level l and at no ancestor of it.
StoredNowhere(l, k) == \A x \in {l} \cup Ancestors(l) : NoLocalEntry(x, k)

\* C1: a write, delete or merge at the Game level changes neither the
\* Runner nor the System local store, one at the Runner level does not
\* change the System local store, and every read directly at an ancestor
\* level returns what it returned before.
C1_WriteLocality ==
    [][last'.op \in {"setitem", "delitem", "update"} =>
         \A anc \in Ancestors(last'.level) :
            /\ data'[anc] = data[anc]
            /\ this'[anc] = this[anc]
            /\ Reads(anc)' = Reads(anc)]_vars

\* C1 witness: a Game-level write has stored a value that differs from the
\* Runner's and the System's entry for the same key.
C1_Witness ==
    /\ last = Done("setitem", "game", "none")
    /\ \E k \in Keys :
         /\ k \in DOMAIN data["game"] /\ k \in DOMAIN data["runner"]
         /\ k \in DOMAIN data["system"]
         /\ data["game"][k] # data["runner"][k]
         /\ data["game"][k] # data["system"][k]

DeclaredOnlyInSystem(k) ==
    /\ k \in DOMAIN definition["system"]
    /\ k \notin DOMAIN definition["runner"]
    /\ k \notin DOMAIN definition["game"]

\* The value in the System dictionary, else the System catalog's default,
\* else KeyError.
SystemValue(k) ==
    IF k \in DOMAIN this["system"] THEN Return(this["system"][k])
    ELSE IF "default" \in DOMAIN definition["system"][k]
         THEN Return(definition["system"][k]["default"])
         ELSE Raise("KeyError")

\* C2: for a key only the System catalog declares, with no entry in the
\* Runner and the Game local store, a read at the Game level returns
\* exactly what a read at the System level returns: the value in the
\* System dictionary, else the System default, else KeyError.
C2_CascadeTransparency ==
    \A k \in Keys :
        (DeclaredOnlyInSystem(k) /\ NoLocalEntry("runner", k) /\ NoLocalEntry("game", k)) =>
            /\ CascadingConfig_getitem("game", k) = CascadingConfig_getitem("system", k)
            /\ CascadingConfig_getitem("game", k) = SystemValue(k)

\* C2 witness: after a write at the System level the Game level reads the
\* stored System value of a key only the System catalog declares, in place
\* of the default that catalog gives it.
C2_Witness ==
    /\ last = Done("setitem", "system", "none")
    /\ \E k \in Keys :
         /\ DeclaredOnlyInSystem(k) /\ NoLocalEntry("runner", k) /\ NoLocalEntry("game", k)
         /\ k \in DOMAIN this["system"]
         /\ "default" \in DOMAIN definition["system"][k]
         /\ CascadingConfig_getitem("game", k) = Return(this["system"][k])

\* The levels from d up to, and without, its ancestor l.
Between(d, l) == ({d} \cup Ancestors(d)) \ ({l} \cup Ancestors(l))

\* Level l and its descendants resolve l's local values from mapping m only.
ResolvesFrom(l, m) ==
    \A k \in Keys :
        /\ k \in DOMAIN m =>
              /\ CascadingConfig_contains(l, k)
              /\ CascadingConfig_getitem(l, k) = Return(m[k])
              /\ \A d \in Levels :
                    (l \in Ancestors(d) /\ \A x \in Between(d, l) : k \notin DOMAIN this[x]) =>
                        /\ CascadingConfig_contains(d, k)
                        /\ CascadingConfig_getitem(d, k) = Return(m[k])
        /\ k \notin DOMAIN m =>
              CascadingConfig_contains(l, k) =
                 (Parent(l) # NoParent /\ CascadingConfig_contains(Parent(l), k))

\* C3 (as claimed): after replace(newMapping) at any level, the parentless
\* System level included, reads and contains at that config and at its
\* descendants resolve the level's local values from newMapping only.
C3_ReplaceVisibleEverywhere ==
    [][\A l \in Levels, m \in Others :
          (last'.op = "replace" /\ last'.level = l /\ replace(l, m)) => ResolvesFrom(l, m)']_vars

\* Some catalog of the written level or of an ancestor registers a
\* validator for k that returns false for v.
RejectedBySome(l, k, v) ==
    \E x \in {l} \cup Ancestors(l) :
        /\ k \in DOMAIN definition[x]
        /\ "validate" \in DOMAIN definition[x][k]
        /\ ~Validate(definition[x][k]["validate"], l, k, v)

\* The step raised ValueError, changed no store and left the read of k.
WriteRefused(l, k) ==
    /\ last' = Done("setitem", l, "ValueError")
    /\ data' = data
    /\ this' = this
    /\ CascadingConfig_getitem(l, k)' = CascadingConfig_getitem(l, k)

\* C4 (as claimed): a validator registered at the written level or at any
\* ancestor that returns false makes the write fail with ValueError and
\* leaves every store and the read of the key as they were.
C4_AnyValidatorRejects ==
    [][last'.op = "setitem" =>
         \A l \in {last'.level}, k \in Keys, v \in Values :
            (RejectedBySome(l, k, v) /\ setitem(l, k, v)) => WriteRefused(l, k)]_vars

RECURSIVE NearestValidator(_, _)
\* The validator of the most specific catalog, from level l up, that
\* registers one for k.
NearestValidator(l, k) ==
    IF k \in DOMAIN definition[l] /\ "validate" \in DOMAIN definition[l][k]
    THEN definition[l][k]["validate"]
    ELSE IF Parent(l) = NoParent THEN "none" ELSE NearestValidator(Parent(l), k)

\* C4 (amended): the validator in effect is the one of the most specific
\* catalog, from the written level up, that registers one for the key; when
\* it returns false the write fails with ValueError, no store changes and
\* the read of the key returns what it returned before.
C4_NearestValidatorRejects ==
    [][last'.op = "setitem" =>
         \A l \in {last'.level}, k \in Keys, v \in Values :
            (/\ NearestValidator(l, k) # "none"
             /\ ~Validate(NearestValidator(l, k), l, k, v)
             /\ setitem(l, k, v)) => WriteRefused(l, k)]_vars

\* C4 witness: a Game-level write was refused by a validator only the
\* System catalog registers, and the Game level still holds its value.
C4_Witness ==
    /\ last = Done("setitem", "game", "ValueError")
    /\ \E k \in Keys :
         /\ k \notin DOMAIN definition["game"]
         /\ k \notin DOMAIN definition["runner"]
         /\ NearestValidator("game", k) = "nonneg"
         /\ k \in DOMAIN this["game"]

\* C5: deleting at the Game level a key that the Game and the Runner local
\* store both hold succeeds, the next Game-level read returns the Runner's
\* value, and the Runner and System local stores do not change.
C5_CascadeReexposure ==
    [][\A k \in Keys :
          (/\ last'.op = "delitem" /\ last'.level = "game"
           /\ delitem("game", k)
           /\ k \in DOMAIN this["game"] /\ k \in DOMAIN this["runner"]) =>
              /\ last' = Done("delitem", "game", "none")
              /\ CascadingConfig_getitem("game", k)' = Return(this["runner"][k])
              /\ \A anc \in Ancestors("game") :
                    data'[anc] = data[anc] /\ this'[anc] = this[anc]]_vars

\* C5 witness: a Game-level delete has re-exposed the Runner's value of a
\* key, which differs from the System's.
C5_Witness ==
    /\ last = Done("delitem", "game", "none")
    /\ \E k \in Keys :
         /\ k \notin DOMAIN this["game"]
         /\ k \in DOMAIN this["runner"]
         /\ k \in DOMAIN this["system"]
         /\ this["runner"][k] # this["system"][k]
         /\ CascadingConfig_getitem("game", k) = Return(this["runner"][k])

\* C6: assigning a permanent identifier to a TempGame facade yields a Game
\* config with exactly the TempGame's local store (nothing read from a file
\* of that identifier), the same catalogs and the same Runner and System
\* above it; it becomes the facade's game level and its active config, and
\* every read at the facade returns what it returned before.
C6_PromotionPreserves ==
    [][\A value \in GameIds \cup {TEMP_CONFIG} :
          (/\ last'.op = "game_config_id"
           /\ game_config_id_setter(value)
           /\ facade.game_level = "TempGameConfig") =>
              /\ last' = Done("game_config_id", "game", "none")
              /\ facade'.game_level = "GameConfig"
              /\ facade'.config = "game"
              /\ facade'.game_config_id = value
              /\ data' = data
              /\ this' = this
              /\ definition' = definition
              /\ Reads(facade.config)' = Reads(facade.config)
              /\ Reads("game")' = Reads("game")]_vars

\* C6 witness: a TempGame holding a value was promoted to an identifier
\* whose file on disk holds another mapping.
C6_Witness ==
    /\ last = Done("game_config_id", "game", "none")
    /\ facade.game_level = "GameConfig"
    /\ facade.game_config_id \in GameIds
    /\ data["game"] # EmptyMap
    /\ files[filename("game")].exists
    /\ load_file(files, filename("game")) # data["game"]

\* C7 (as claimed): only the first assignment on a facade constructed with
\* the sentinel succeeds; every other assignment fails with the facade's
\* Exception("Cannot change game_config_id later") and changes nothing.
C7_OnlyFirstAssignment ==
    [][\A value \in GameIds \cup {TEMP_CONFIG} :
          (/\ last'.op = "game_config_id"
           /\ game_config_id_setter(value)
           /\ facade.game_level # "TempGameConfig") =>
              /\ last' = Done("game_config_id", "game", "Exception")
              /\ facade' = facade
              /\ data' = data /\ this' = this]_vars

\* C8: after save() a fresh ConfigFile on the same file has the local store
\* the saving config had, so the file holds that level's own entries and
\* nothing resolved from an ancestor or a default.
C8_SaveLoadRoundTrip ==
    [][\A l \in Levels :
          (last'.op = "save" /\ last'.level = l /\ save(l)) =>
              /\ files'[filename(l)].exists
              /\ InitialData(files, filename(l))' = data[l]
              /\ data' = data]_vars

\* C8 witness: a Game config with a local entry was saved while the Runner
\* level held another value and the System catalog a default.
C8_Witness ==
    /\ last = Done("save", "game", "none")
    /\ data["game"] # EmptyMap
    /\ data["runner"] # EmptyMap
    /\ data["runner"] # data["game"]
    /\ files[filename("game")] = [exists |-> TRUE, text |-> yaml_dump(data["game"])]

\* C9 (as claimed): a key stored nowhere on the chain reads as the level's
\* merged default, in which the more specific catalog's default shadows an
\* ancestor's.
C9_SpecificDefaultWins ==
    \A l \in Levels, k \in Keys :
        (StoredNowhere(l, k) /\ k \in DOMAIN defaults(l)) =>
            CascadingConfig_getitem(l, k) = Return(defaults(l)[k])

\* C10 (as claimed): get_nodefaults of a key stored nowhere on the chain
\* raises KeyError, whatever defaults the catalogs declare.
C10_NoDefaultFallback ==
    \A l \in Levels, k \in Keys :
        StoredNowhere(l, k) => get_nodefaults(l, k) = Raise("KeyError")

\* C11: deleting a key that the dictionary of the level does not hold raises
\* KeyError and changes no store and no read, also when an ancestor holds
\* the key or a catalog gives it a default.
C11_DeleteLocalMiss ==
    [][last'.op = "delitem" =>
         \A l \in {last'.level}, k \in Keys :
            (k \notin DOMAIN this[l] /\ delitem(l, k)) =>
                /\ last' = Done("delitem", l, "KeyError")
                /\ data' = data
                /\ this' = this
                /\ \A x \in Levels : Reads(x)' = Reads(x)]_vars

\* C11 witness: a Game-level delete was refused for a key the Game level
\* reads from the Runner's dictionary.
C11_Witness ==
    /\ last = Done("delitem", "game", "KeyError")
    /\ \E k \in Keys :
         /\ NoLocalEntry("game", k)
         /\ k \in DOMAIN this["runner"]
         /\ k \in DOMAIN defaults("game")
         /\ CascadingConfig_getitem("game", k) = Return(this["runner"][k])

\* C12 (as claimed): save() on a facade at any level, the TempGame level
\* included, succeeds and leaves in the active level's file exactly that
\* level's local store, and changes the file of no other level.
C12_FacadeSavePersists ==
    [][last'.op = "LutrisConfig.save" =>
         \A l \in {facade.config} :
            /\ last' = Done("LutrisConfig.save", l, "none")
            /\ files'[filename(l)].exists
            /\ load_file(files', filename(l)) = data[l]
            /\ \A p \in Paths \ {filename(l)} : files'[p] = files[p]]_vars

\* The value of k in the nearest dictionary, from level l up the claimed
\* chain, that holds it.
NearestStored(l, k) ==
    IF k \in DOMAIN data[l] THEN Return(data[l][k])
    ELSE IF l = "game" /\ k \in DOMAIN data["runner"] THEN Return(data["runner"][k])
    ELSE IF l # "system" /\ k \in DOMAIN data["system"] THEN Return(data["system"][k])
    ELSE Raise("KeyError")

\* The active config of the facade is level l, built on the levels of
\* `chain` only, and resolves stored keys along that chain.
ActiveChain(l, chain) ==
    /\ facade.config = l /\ facade.level = l
    /\ \A x \in Levels : Exists(x) <=> x \in chain
    /\ \A k \in Keys :
          /\ CascadingConfig_contains(l, k) <=> (\E x \in chain : k \in DOMAIN data[x])
          /\ NearestStored(l, k).exc = "none" => CascadingConfig_getitem(l, k) = NearestStored(l, k)

C14_RemoveOnlyGameFile ==
    [][last'.op = "remove" =>
         /\ last'.exc = "none"
         /\ files'[system_config_path] = files[system_config_path]
         /\ files'[runner_config_path] = files[runner_config_path]
         /\ IF facade.game_config_id \in GameIds
            THEN /\ facade.game_level = "GameConfig"
                 /\ ~files'[GamePath(facade.game_config_id)].exists
                 /\ \A p \in Paths \ {GamePath(facade.game_config_id)} : files'[p] = files[p]
            ELSE files' = files
         /\ data' = data /\ this' = this /\ facade' = facade]_vars

\* C14 witness: remove() ran on a Game facade with a permanent identifier;
\* the game's file is gone while the Runner's and the System's files stand.
C14_Witness ==
    /\ last.op = "remove"
    /\ facade.game_config_id \in GameIds
    /\ facade.game_level = "GameConfig"
    /\ ~files[GamePath(facade.game_config_id)].exists
    /\ files[runner_config_path].exists
    /\ files[system_config_path].exists

\* C15: update(other) validates nothing: every key of other is stored in
\* the dictionary of the level it is called on with the given value and
\* reads back as that value, whatever the validators say; the other keys
\* keep their local entries and no ancestor's store changes.
C15_MergeUnvalidated ==
    [][last'.op = "update" =>
         \A l \in {last'.level}, m \in Others :
            update(l, m) =>
                /\ last' = Done("update", l, "none")
                /\ \A k \in DOMAIN m :
                      /\ k \in DOMAIN this'[l] /\ this'[l][k] = m[k]
                      /\ CascadingConfig_getitem(l, k)' = Return(m[k])
                /\ \A k \in Keys \ DOMAIN m :
                      /\ k \in DOMAIN this'[l] <=> k \in DOMAIN this[l]
                      /\ k \in DOMAIN this[l] => this'[l][k] = this[l][k]
                /\ shared[l] => data'[l] = this'[l]
                /\ \A anc \in Ancestors(l) :
                      data'[anc] = data[anc] /\ this'[anc] = this[anc]]_vars

\* C15 witness: after an update at the Game level the Game dictionary holds
\* a value that the validator in effect there refuses in a write.
C15_Witness ==
    /\ last = Done("update", "game", "none")
    /\ \E k \in Keys :
         /\ k \in DOMAIN this["game"]
         /\ k \in DOMAIN validate_cache("game")
         /\ ~Validate(validate_cache("game")[k], "game", k, this["game"][k])
         /\ k \notin DOMAIN this["runner"]

RECURSIVE SpecialBehaviour(_, _)
\* The special getter the catalogs give key k at level l: that of the most
\* specific catalog, from l up, that declares a getter, marks the key
\* cascading (by either flag) or supplies a transform; "none" otherwise.
SpecialBehaviour(l, k) ==
    LET d == IF k \in DOMAIN definition[l] THEN definition[l][k] ELSE EmptyMap
    IN  IF "getter" \in DOMAIN d THEN d["getter"]
        ELSE IF ("cascade" \in DOMAIN d /\ d["cascade"]) \/ ("cascading" \in DOMAIN d /\ d["cascading"])
        THEN "cascade_getter"
        ELSE IF "transform" \in DOMAIN d THEN "transform_getter"
        ELSE IF Parent(l) = NoParent THEN "none"
        ELSE SpecialBehaviour(Parent(l), k)

\* The construction of level l, or of an ancestor it is built on, raised.
ConstructionFailed(l) ==
    /\ last.op = "CascadingConfig" /\ last.exc # "none"
    /\ last.level \in {l} \cup Ancestors(l)

\* C16 (as claimed): constructing a config succeeds whatever special
\* behaviours the catalogs declare, and its getter cache maps every key to
\* the getter of the most specific catalog that declares one: the custom
\* getter, the cascading-subdict getter or the transform getter.
C16_GetterCacheBuilt ==
    last.op = "CascadingConfig" =>
        /\ last.exc = "none"
        /\ build_getter_cache(last.level).exc = "none"
        /\ \A k \in Keys :
              SpecialBehaviour(last.level, k) =
                 (IF k \in DOMAIN getter_cache(last.level)
                  THEN getter_cache(last.level)[k] ELSE "none")

\* f applied once to the raw cascaded value of k at level l, else the
\* default, else KeyError; f negates.
TransformedRead(l, k) ==
    IF NearestStored(l, k).exc = "none" THEN Return(0 - NearestStored(l, k).val)
    ELSE IF k \in DOMAIN defaults(l) THEN Return(defaults(l)[k])
    ELSE Raise("KeyError")

\* C17 (as claimed): for a key with a transform f, declared by the level's
\* own catalog or by an ancestor's, the config can be constructed and a read
\* returns f of the raw cascaded value, else the default, else KeyError.
C17_TransformRead ==
    \A l \in Levels, k \in Keys :
        SpecialBehaviour(l, k) = "transform_getter" =>
            /\ ~ConstructionFailed(l)
            /\ Exists(l) => CascadingConfig_getitem(l, k) = TransformedRead(l, k)

\* C18 (as claimed): for a key marked cascading, a config with a parent can
\* be constructed and a read of the key at it succeeds.
C18_CascadingReadSucceeds ==
    \A l \in {"runner", "game"}, k \in Keys :
        SpecialBehaviour(l, k) = "cascade_getter" =>
            /\ ~ConstructionFailed(l)
            /\ Exists(l) => CascadingConfig_getitem(l, k).exc = "none"

\* C19: after a write, delete or merge at an ancestor level, a read of the
\* key at a descendant with no local entry down to it returns the value the
\* ancestor's dictionary now holds; when the ancestor holds none, what the
\* ancestor itself reads from above; and never a stored value when no
\* dictionary from the descendant up holds the key.
C19_NoStaleRead ==
    [][last'.op \in {"setitem", "delitem", "update"} =>
         \A a \in {last'.level}, d \in Levels, k \in Keys :
            (a \in Ancestors(d) /\ \A x \in Between(d, a) : k \notin DOMAIN this'[x]) =>
                LET r == CascadingConfig_getitem(d, k)'
                IN  IF k \in DOMAIN this'[a]
                    THEN r = Return(this'[a][k])
                    ELSE IF \E x \in Ancestors(a) : k \in DOMAIN this'[x]
                    THEN r = CascadingConfig_getitem(a, k)'
                    ELSE r.exc = "none" => r.val \notin Values]_vars

\* C19 witness: after a write at the System level the Game level, with no
\* entry of its own or of the Runner, reads the value just written.
C19_Witness ==
    /\ last = Done("setitem", "system", "none")
    /\ \E k \in Keys :
         /\ NoLocalEntry("game", k) /\ NoLocalEntry("runner", k)
         /\ k \in DOMAIN this["system"]
         /\ k \in DOMAIN defaults("game")
         /\ CascadingConfig_getitem("game", k) = Return(this["system"][k])

\* C20 (as claimed): at every level, the parentless System level included,
\* the dictionary that writes and deletes modify is the mapping save()
\* serializes: the file a save leaves holds exactly that dictionary.
C20_SavedIsWritten ==
    [][(last'.op \in {"save", "LutrisConfig.save"} /\ last'.exc = "none") =>
         \A l \in {last'.level} :
            /\ files'[filename(l)].exists
            /\ load_file(files', filename(l)) = this[l]]_vars

====
